---- MODULE Spec2Model ----
(***************************************************************************)
(* Model of src/main.py: the Hume voice chat dashboard.                    *)
(*                                                                         *)
(*   StreamlitWebSocketHandler  the state holder and its four vendor       *)
(*                              callbacks (the event reducer)              *)
(*   HumeVoiceChatApp           start_chat / stop_chat / _chat_loop / run  *)
(*                                                                         *)
(* Three specifications share the state:                                   *)
(*   SpecTopN  _extract_top_n_emotions applied to every bounded mapping    *)
(*   Spec      one holder receiving any sequence of callbacks              *)
(*   SpecApp   the main (script) thread interleaved with the background    *)
(*             session threads                                             *)
(*   SpecSession  the same, with every kind of event and failure           *)
(*   SpecRedraw  the same, recording what each redraw showed, with the     *)
(*             scheduled rerun's fairness                                  *)
(*                                                                         *)
(* Conventions.  A Python dict is the sequence of its <<key, value>> items *)
(* in insertion order ({} is <<>>).  An Optional value is None or          *)
(* Some(v).  An f-string is the tuple of its literal prefix and the values *)
(* formatted into it.  Timestamps (datetime.now) are not modelled: no      *)
(* branch of the program reads them.                                       *)
(***************************************************************************)
EXTENDS Integers, Sequences, FiniteSets, TLC

VARIABLES
    holders,    \* every StreamlitWebSocketHandler constructed so far, by index
    ss,         \* st.session_state: handler (index), is_connected, chat_started
    threads,    \* the background threads start_chat has started
    ui,         \* the script thread: rerun scheduled, button shown, last redraw
    last,       \* the step taken last (history variable)
    hist,       \* Spec only: every callback delivered to the holder, in order
    scores_in,  \* SpecTopN only: the mapping handed to _extract_top_n_emotions
    top_out     \* SpecTopN only: what it returned

vars == <<holders, ss, threads, ui, last, hist, scores_in, top_out>>

(***************************************************************************)
(* Bounds of the model.                                                    *)
(***************************************************************************)
MaxEntries == 6     \* longest prosody mapping SpecTopN enumerates
MaxScore == 2       \* scores range over 0..MaxScore (ties happen)
MaxEvents == 3      \* callbacks delivered in one behaviour of Spec

\* The n on_message passes to _extract_top_n_emotions.
TopN == 5

None == [none |-> TRUE]
Some(v) == [none |-> FALSE, val |-> v]

Min(a, b) == IF a < b THEN a ELSE b

\* The subsequence of s whose elements satisfy Keep.
Filter(s, Keep(_)) ==
    LET F[i \in 0..Len(s)] ==
            IF i = 0 THEN <<>>
            ELSE IF Keep(s[i]) THEN Append(F[i - 1], s[i]) ELSE F[i - 1]
    IN F[Len(s)]

\* The score standing for a value that cannot be ordered against a float.
NoScore == -1

(***************************************************************************)
(* StreamlitWebSocketHandler._extract_top_n_emotions                       *)
(***************************************************************************)
\* list.sort / sorted with reverse=True is stable: x goes behind every item
\* already placed whose score is >= its own.
RECURSIVE InsertDesc(_, _)
InsertDesc(s, x) ==
    IF s = <<>> THEN <<x>>
    ELSE IF Head(s)[2] >= x[2] THEN <<Head(s)>> \o InsertDesc(Tail(s), x)
    ELSE <<x>> \o s

\* A buggy sort: ascending (reverse dropped).
RECURSIVE InsertAsc(_, _)
InsertAsc(s, x) ==
    IF s = <<>> THEN <<x>>
    ELSE IF Head(s)[2] <= x[2] THEN <<Head(s)>> \o InsertAsc(Tail(s), x)
    ELSE <<x>> \o s

RECURSIVE SortedDesc(_)
SortedDesc(items) ==
    IF items = <<>> THEN <<>>
    ELSE InsertDesc(SortedDesc(SubSeq(items, 1, Len(items) - 1)), items[Len(items)])

RECURSIVE SortedAsc(_)
SortedAsc(items) ==
    IF items = <<>> THEN <<>>
    ELSE InsertAsc(SortedAsc(SubSeq(items, 1, Len(items) - 1)), items[Len(items)])

\* sorted() raises TypeError as soon as it compares a score that has no order;
\* a list of fewer than two items is never compared.
Sortable(items) ==
    Len(items) < 2 \/ \A i \in 1..Len(items) : items[i][2] # NoScore

ExtractTopNAscending(emotion_scores, n) ==
    SubSeq(SortedAsc(emotion_scores), 1, Min(n, Len(emotion_scores)))

ExtractTopN(emotion_scores, n) ==
    SubSeq(SortedDesc(emotion_scores), 1, Min(n, Len(emotion_scores)))

(***************************************************************************)
(* StreamlitWebSocketHandler: construction and _log_message                *)
(***************************************************************************)
NewHolder ==
    [ byte_strs |-> <<>>,
      messages |-> <<>>,
      emotion_scores |-> <<>>,
      chat_metadata |-> <<>>,
      is_connected |-> FALSE,
      error_message |-> None,
      has_logs |-> FALSE,      \* __init__ sets no logs attribute
      logs |-> <<>> ]

LogEntry(text, msg_type) == [message |-> text, type |-> msg_type]

LogMessageWrongType(h, text, msg_type) ==
    [h EXCEPT !.has_logs = TRUE,
              !.logs = Append(h.logs, LogEntry(text, "system"))]

LogMessage(h, text, msg_type) ==
    [h EXCEPT !.has_logs = TRUE,
              !.logs = Append(h.logs, LogEntry(text, msg_type))]

(***************************************************************************)
(* The callbacks.  Each returns the holder it leaves and the exception, if *)
(* any, that leaves the callback (propagated) or that its own handler      *)
(* caught (caught).                                                        *)
(***************************************************************************)
Outcome(h, propagated, caught) ==
    [holder |-> h, propagated |-> propagated, caught |-> caught]

NoExc == "None"

OnOpen(h) ==
    Outcome(LogMessage([h EXCEPT !.is_connected = TRUE],
                       <<"WebSocket connection opened.">>, "system"),
            NoExc, NoExc)

OnClose(h) ==
    Outcome(LogMessage([h EXCEPT !.is_connected = FALSE],
                       <<"WebSocket connection closed.">>, "system"),
            NoExc, NoExc)

\* error is what the vendor hands over: its text, or an object whose __str__
\* raises.  on_error has no try block.
OnError(h, error) ==
    IF error.str_raises
    THEN Outcome(h, error.name, NoExc)
    ELSE LET text == <<"WebSocket error", error.name>>
         IN Outcome(LogMessage([h EXCEPT !.error_message = Some(text)], text, "error"),
                    NoExc, NoExc)

\* The statements of on_message's try block, for each branch in turn: the
\* holder when the block is left and the exception that left it.
Try(h, exc) == [h |-> h, exc |-> exc]

MetadataBranchSetOnce(h, message) ==
    LET md == << <<"chat_id", message.chat_id>>,
                 <<"chat_group_id", message.chat_group_id>> >>
    IN Try(LogMessage([h EXCEPT !.chat_metadata =
                           IF h.chat_metadata = <<>> THEN md ELSE h.chat_metadata],
                      <<"Chat ID", message.chat_id>>, "metadata"),
           NoExc)

MetadataBranch(h, message) ==
    LET md == << <<"chat_id", message.chat_id>>,
                 <<"chat_group_id", message.chat_group_id>> >>
    IN Try(LogMessage([h EXCEPT !.chat_metadata = md],
                      <<"Chat ID", message.chat_id>>, "metadata"),
           NoExc)

MsgContent(chat_message, emotions) ==
    [role |-> chat_message.role, content |-> chat_message.content,
     emotions |-> emotions]

MessageBranchNoCurrent(h, message) ==
    IF message.message.none \/ message.models.none THEN Try(h, "AttributeError")
    ELSE LET prosody == message.models.val.prosody
         IN IF prosody.none
            THEN Try([h EXCEPT !.messages =
                          Append(h.messages, MsgContent(message.message.val, None))],
                     NoExc)
            ELSE IF ~Sortable(prosody.val) THEN Try(h, "TypeError")
            ELSE LET emotions == ExtractTopN(prosody.val, TopN)
                 IN Try([h EXCEPT !.messages =
                                      Append(h.messages,
                                             MsgContent(message.message.val, Some(emotions)))],
                        NoExc)

MessageBranchPrepend(h, message) ==
    IF message.message.none \/ message.models.none THEN Try(h, "AttributeError")
    ELSE LET prosody == message.models.val.prosody
         IN IF prosody.none
            THEN Try([h EXCEPT !.messages =
                          <<MsgContent(message.message.val, None)>> \o h.messages], NoExc)
            ELSE IF ~Sortable(prosody.val) THEN Try(h, "TypeError")
            ELSE LET emotions == ExtractTopN(prosody.val, TopN)
                 IN Try([h EXCEPT !.emotion_scores = emotions,
                                  !.messages =
                                      <<MsgContent(message.message.val, Some(emotions))>>
                                      \o h.messages],
                        NoExc)

MessageBranch(h, message) ==
    IF message.message.none THEN Try(h, "AttributeError")         \* line 53
    ELSE IF message.models.none THEN Try(h, "AttributeError")     \* line 59
    ELSE LET prosody == message.models.val.prosody
         IN IF prosody.none
            THEN Try([h EXCEPT !.messages =
                          Append(h.messages, MsgContent(message.message.val, None))],
                     NoExc)
            ELSE IF ~Sortable(prosody.val) THEN Try(h, "TypeError")   \* lines 60-62
            ELSE LET emotions == ExtractTopN(prosody.val, TopN)
                 IN Try([h EXCEPT !.emotion_scores = emotions,
                                  !.messages =
                                      Append(h.messages,
                                             MsgContent(message.message.val, Some(emotions)))],
                        NoExc)

\* base64.b64decode raises binascii.Error on a payload that is not padded.
AudioBranch(h, message) ==
    IF ~message.data.padded THEN Try(h, "binascii.Error")
    ELSE Try([h EXCEPT !.byte_strs = Append(h.byte_strs, message.data.bytes)], NoExc)

ErrorBranchNoCode(h, message) ==
    LET text == <<"Hume API Error", message.message_text>>
    IN Try(LogMessage([h EXCEPT !.error_message = Some(text)], text, "error"), NoExc)

ErrorBranch(h, message) ==
    LET text == <<"Hume API Error", message.code, message.message_text>>
    IN Try(LogMessage([h EXCEPT !.error_message = Some(text)], text, "error"), NoExc)

OtherBranch(h, message) ==
    Try(LogMessage(h, <<"Received event", message.type>>, "system"), NoExc)

TryBlock(h, message) ==
    IF message.type = "chat_metadata" THEN MetadataBranch(h, message)
    ELSE IF message.type \in {"user_message", "assistant_message"}
         THEN MessageBranch(h, message)
    ELSE IF message.type = "audio_output" THEN AudioBranch(h, message)
    ELSE IF message.type = "error" THEN ErrorBranch(h, message)
    ELSE OtherBranch(h, message)

\* on_message without its except clause.
OnMessageUncaught(h, message) ==
    LET r == TryBlock(h, message)
    IN Outcome(r.h, r.exc, NoExc)

OnMessage(h, message) ==
    LET r == TryBlock(h, message)
    IN IF r.exc = NoExc THEN Outcome(r.h, NoExc, NoExc)
       ELSE LET text == <<"Handler error", r.exc>>
            IN Outcome(LogMessage([r.h EXCEPT !.error_message = Some(text)], text, "error"),
                       NoExc, r.exc)

(***************************************************************************)
(* What the vendor can hand to the callbacks.                              *)
(***************************************************************************)
Emotions == <<"joy", "calm", "fear", "anger", "sad", "awe", "pride", "love">>

\* dict(prosody.scores) with k entries, in the vendor's order.
ScoreMappings ==
    UNION { { [i \in 1..k |-> <<Emotions[i], sc[i]>>] : sc \in [1..k -> 0..MaxScore] }
            : k \in 0..MaxEntries }

\* {"joy":9,"calm":2,"fear":1,"anger":0,"sad":2,"awe":4}: six entries, a tie.
SixScores ==
    << <<"joy", 9>>, <<"calm", 2>>, <<"fear", 1>>, <<"anger", 0>>, <<"sad", 2>>,
       <<"awe", 4>> >>
TwoScores == << <<"calm", 3>>, <<"joy", 7>> >>
BadScores == << <<"joy", 1>>, <<"calm", NoScore>> >>

\* The vendor's user_message carries role "user", its assistant_message
\* role "assistant".
RoleOf(t) == IF t = "user_message" THEN "user" ELSE "assistant"
MessageTypes == {"user_message", "assistant_message"}

Contents == {"hello", "bye"}
ChatMessage(role, content) == Some([role |-> role, content |-> content])
Inference(prosody) == Some([prosody |-> prosody])

WellFormedMessages ==
    { [type |-> t, message |-> ChatMessage(RoleOf(t), c), models |-> Inference(p)] :
        t \in MessageTypes, c \in Contents,
        p \in {None, Some(SixScores), Some(TwoScores)} }

MalformedMessages ==
    { [type |-> "user_message", message |-> None, models |-> Inference(None)],
      [type |-> "assistant_message", message |-> ChatMessage("assistant", "hello"),
       models |-> None],
      [type |-> "user_message", message |-> ChatMessage("user", "hello"),
       models |-> Inference(Some(BadScores))] }

MetadataEvents ==
    { [type |-> "chat_metadata", chat_id |-> "abc", chat_group_id |-> "g1"],
      [type |-> "chat_metadata", chat_id |-> "xyz", chat_group_id |-> "g2"] }

AudioEvents ==
    { [type |-> "audio_output", data |-> [padded |-> p, bytes |-> "pcm"]] :
        p \in BOOLEAN }

\* An error event's message attribute is a string; it is called message_text
\* here because a chat message's message attribute is an object.
ErrorEvents ==
    { [type |-> "error", code |-> "E0101", message_text |-> m] :
        m \in {"no credits", "timeout"} }

OtherEvents == { [type |-> "user_interruption"] }

SubscribeEvents ==
    MetadataEvents \cup WellFormedMessages \cup MalformedMessages \cup AudioEvents
        \cup ErrorEvents \cup OtherEvents

VendorErrors ==
    { [name |-> "ConnectionClosed", str_raises |-> FALSE],
      [name |-> "BrokenStr", str_raises |-> TRUE] }

(***************************************************************************)
(* Initial state: app = HumeVoiceChatApp(); app.run() has initialised      *)
(* st.session_state (initialize_session_state creates each key once).      *)
(***************************************************************************)
InitSessionState == [handler |-> 1, is_connected |-> FALSE, chat_started |-> FALSE]

\* rerun: st.rerun() is scheduled; shown: the button render_sidebar drew last;
\* seen: what the last redraw read from the holder (Rendered, below).
InitUi == [rerun |-> FALSE, shown |-> "start", seen |-> None]

InitCommon ==
    /\ holders = <<NewHolder>>
    /\ ss = InitSessionState
    /\ threads = <<>>
    /\ ui = InitUi
    /\ last = [op |-> "init"]
    /\ hist = <<>>
    /\ top_out = None

(***************************************************************************)
(* SpecTopN: the pure function on every bounded mapping.                   *)
(***************************************************************************)
InitTopN == InitCommon /\ scores_in \in ScoreMappings

Extract ==
    /\ top_out.none
    /\ top_out' = Some(ExtractTopN(scores_in, TopN))
    /\ last' = [op |-> "_extract_top_n_emotions"]
    /\ UNCHANGED <<holders, ss, threads, ui, hist, scores_in>>

NextTopN == Extract

SpecTopN == InitTopN /\ [][NextTopN]_vars

(***************************************************************************)
(* Spec: one holder, any sequence of callbacks.                            *)
(***************************************************************************)
Init == InitCommon /\ scores_in = <<>>

Call(op, i, arg, out) ==
    [op |-> op, h |-> i, arg |-> arg, propagated |-> out.propagated,
     caught |-> out.caught]

\* The vendor calls op on holder i; out is what the callback did.
Deliver(op, i, arg, out) ==
    /\ holders' = [holders EXCEPT ![i] = out.holder]
    /\ last' = Call(op, i, arg, out)

DeliverOpen ==
    /\ Len(hist) < MaxEvents
    /\ Deliver("on_open", 1, None, OnOpen(holders[1]))
    /\ hist' = Append(hist, last')
    /\ UNCHANGED <<ss, threads, ui, scores_in, top_out>>

DeliverMessage ==
    /\ Len(hist) < MaxEvents
    /\ \E message \in SubscribeEvents :
           Deliver("on_message", 1, message, OnMessage(holders[1], message))
    /\ hist' = Append(hist, last')
    /\ UNCHANGED <<ss, threads, ui, scores_in, top_out>>

DeliverClose ==
    /\ Len(hist) < MaxEvents
    /\ Deliver("on_close", 1, None, OnClose(holders[1]))
    /\ hist' = Append(hist, last')
    /\ UNCHANGED <<ss, threads, ui, scores_in, top_out>>

DeliverError ==
    /\ Len(hist) < MaxEvents
    /\ \E error \in VendorErrors :
           Deliver("on_error", 1, error, OnError(holders[1], error))
    /\ hist' = Append(hist, last')
    /\ UNCHANGED <<ss, threads, ui, scores_in, top_out>>

Next == DeliverOpen \/ DeliverMessage \/ DeliverClose \/ DeliverError

Spec == Init /\ [][Next]_vars

(***************************************************************************)
(* HumeVoiceChatApp.  The script (main) thread executes run() from top to  *)
(* bottom on every redraw; start_chat starts one daemon thread per call,   *)
(* which executes _chat_loop.  Both share st.session_state.                *)
(***************************************************************************)
MaxStarts == 2        \* start_chat calls in one behaviour of SpecApp
MaxAppCallbacks == 1  \* on_message calls in one behaviour of SpecApp
MaxSessions == 1      \* start_chat calls in one behaviour of SpecSession
MaxCallbacks == 2     \* on_message / on_error calls that leave a message or a
                      \* log entry, in one behaviour of SpecSession
MaxRedrawn == 1       \* start_chat calls in one behaviour of SpecRedraw
MaxDrawn == 1         \* on_message calls in one behaviour of SpecRedraw

\* The slices render_chat_tab and render_logs_tab show.
ChatWindow == 10
LogWindow == 50

LastN(s, n) == IF Len(s) <= n THEN s ELSE SubSeq(s, Len(s) - n + 1, Len(s))

\* What one redraw reads from the holder: render_sidebar, render_chat_tab,
\* render_emotions_tab, render_logs_tab.
Rendered(h) ==
    [ chat_metadata |-> h.chat_metadata,
      error_message |-> h.error_message,
      chat |-> LastN(h.messages, ChatWindow),
      emotion_scores |-> h.emotion_scores,
      history |-> h.messages,
      logs |-> LastN(h.logs, LogWindow) ]

StopChatKeepsConnected(s) == [s EXCEPT !.chat_started = FALSE]

StopChat(s) == [s EXCEPT !.chat_started = FALSE, !.is_connected = FALSE]

\* A thread start_chat has just started: _chat_loop has not run a line yet.
\*   pc         "start", "connecting" (awaiting connect_with_callbacks),
\*              "streaming" (awaiting the microphone relay), "done"
\*   h          the holder whose callbacks lines 222-225 registered (0: none yet)
\*   connects   connect_with_callbacks calls made
\*   listening  the vendor's receive loop is delivering callbacks
NewThread ==
    [pc |-> "start", h |-> 0, connects |-> 0, listening |-> FALSE]

\* st.rerun() is reached exactly when chat_started is set at the end of run().
ScheduleNever(chat_started) == FALSE

ScheduleRerun(chat_started) == chat_started

\* One execution of run().  click is the button the user pressed on the page
\* the previous run drew ("none": a scheduled rerun or another widget); creds
\* says whether the three credential fields are all filled in; spawn_ok
\* whether threading.Thread.start() succeeds.  record: whether the model keeps
\* what the redraw showed (ui.seen).
RunScript(click, creds, spawn_ok, record) ==
    LET start == ~ss.chat_started /\ click = "start" /\ creds
        stop == ss.chat_started /\ click = "stop"
        s1 == IF start
              THEN [ss EXCEPT !.chat_started = spawn_ok,
                              !.handler = Len(holders) + 1]
              ELSE IF stop THEN StopChat(ss) ELSE ss
        hs == IF start THEN Append(holders, NewHolder) ELSE holders
    IN /\ ss' = s1
       /\ holders' = hs
       /\ threads' = IF start /\ spawn_ok THEN Append(threads, NewThread) ELSE threads
       /\ ui' = [rerun |-> ScheduleRerun(s1.chat_started),
                 shown |-> IF ss.chat_started THEN "stop" ELSE "start",
                 seen |-> IF record THEN Some(Rendered(hs[s1.handler])) ELSE ui.seen]
       /\ last' = [op |-> "run", start |-> start, stop |-> stop]
       /\ UNCHANGED <<hist, scores_in, top_out>>

\* The rerun st.rerun() scheduled, after time.sleep(2).
ScheduledRun(record) ==
    /\ ui.rerun
    /\ RunScript("none", TRUE, TRUE, record)

\* The user presses the button on the page, or touches another widget.
UserRun(max_starts, record) ==
    \/ RunScript("none", TRUE, TRUE, record)
    \/ /\ ui.shown = "stop"
       /\ RunScript("stop", TRUE, TRUE, record)
    \/ /\ ui.shown = "start"
       /\ Len(holders) <= max_starts
       /\ \E creds, spawn_ok \in BOOLEAN : RunScript("start", creds, spawn_ok, record)

NotSystem(entry) == entry.type # "system"

RECURSIVE Entries(_, _)
Entries(hs, i) ==
    IF i = 0 THEN 0
    ELSE Entries(hs, i - 1) + Len(hs[i].messages)
             + Len(Filter(hs[i].logs, NotSystem))

\* Messages and non-system log entries held by all holders together: the
\* entries on_message and on_error have made.
Delivered == Entries(holders, Len(holders))

ThreadStep(t, op) == [op |-> op]

\* The vendor's loop of session thread t calls op on the holder it registered.
Invoke(op, t, out) ==
    /\ holders' = [holders EXCEPT ![threads[t].h] = out.holder]
    /\ last' = [op |-> op, t |-> t, h |-> threads[t].h,
                propagated |-> out.propagated, caught |-> out.caught]

\* Lines 217-226: the four callbacks are read off st.session_state.handler
\* and connect_with_callbacks is awaited.
ChatLoopBind(t) ==
    /\ threads[t].pc = "start"
    /\ threads' = [threads EXCEPT ![t].pc = "connecting", ![t].h = ss.handler]
    /\ last' = ThreadStep(t, "bind")
    /\ UNCHANGED <<holders, ss, ui, hist, scores_in, top_out>>

\* The connection opens.  The vendor calls on_open as the context is
\* entered; the body then runs line 227 and awaits the microphone relay
\* (lines 229-235) without yielding in between.
ConnectOpens(t) ==
    /\ threads[t].pc = "connecting"
    /\ threads' = [threads EXCEPT ![t].pc = "streaming", ![t].connects = @ + 1,
                                  ![t].listening = TRUE]
    /\ Invoke("on_open", t, OnOpen(holders[threads[t].h]))
    /\ ss' = [ss EXCEPT !.is_connected = TRUE]
    /\ UNCHANGED <<ui, hist, scores_in, top_out>>

ChatLoopErrorText(exc) == <<"Chat loop error", exc>>

\* Lines 237-239: the error goes to the holder st.session_state names now,
\* the flag is cleared, the coroutine returns and the thread ends.  Whatever
\* raised, connect_with_callbacks has been called once by then.
Except(t, exc) ==
    /\ threads' = [threads EXCEPT ![t].pc = "done", ![t].listening = FALSE,
                                  ![t].connects = 1]
    /\ holders' = [holders EXCEPT ![ss.handler].error_message =
                       Some(ChatLoopErrorText(exc))]
    /\ ss' = [ss EXCEPT !.is_connected = FALSE]
    /\ last' = [op |-> "except", t |-> t, h |-> ss.handler, exc |-> exc]

\* The connection is refused: connect_with_callbacks raises.
ConnectFails(t) ==
    /\ threads[t].pc = "connecting"
    /\ Except(t, "ApiError")
    /\ UNCHANGED <<ui, hist, scores_in, top_out>>

Receiving(t) ==
    /\ threads[t].pc = "streaming"
    /\ threads[t].listening

\* The events the session threads deliver: a message with prosody, one whose
\* scores cannot be sorted, and an error event.
AppEvents ==
    { [type |-> "user_message", message |-> ChatMessage("user", "hello"),
       models |-> Inference(Some(TwoScores))],
      [type |-> "assistant_message", message |-> ChatMessage("assistant", "bye"),
       models |-> Inference(Some(BadScores))],
      [type |-> "error", code |-> "E0101", message_text |-> "timeout"] }

\* An exception that leaves a callback may end the vendor's receive loop.
AfterCallback(t) ==
    \E goes_on \in BOOLEAN :
        /\ last'.propagated = NoExc => goes_on
        /\ threads' = [threads EXCEPT ![t].listening = goes_on]

CallbackMessage(t, max_callbacks, events) ==
    /\ Receiving(t)
    /\ Delivered < max_callbacks
    /\ \E message \in events :
           Invoke("on_message", t, OnMessage(holders[threads[t].h], message))
    /\ AfterCallback(t)
    /\ UNCHANGED <<ss, ui, hist, scores_in, top_out>>

CallbackError(t, max_callbacks) ==
    /\ Receiving(t)
    /\ Delivered < max_callbacks
    /\ \E error \in VendorErrors :
           Invoke("on_error", t, OnError(holders[threads[t].h], error))
    /\ AfterCallback(t)
    /\ UNCHANGED <<ss, ui, hist, scores_in, top_out>>

\* The receive loop ends (the peer closed): on_close is its last callback.
CallbackClose(t) ==
    /\ Receiving(t)
    /\ threads' = [threads EXCEPT ![t].listening = FALSE]
    /\ Invoke("on_close", t, OnClose(holders[threads[t].h]))
    /\ UNCHANGED <<ss, ui, hist, scores_in, top_out>>

\* MicrophoneInterface.start raises.
MicrophoneFails(t) ==
    /\ threads[t].pc = "streaming"
    /\ Except(t, "OSError")
    /\ UNCHANGED <<ui, hist, scores_in, top_out>>

\* MicrophoneInterface.start returns: the async with block is left, the
\* coroutine and its thread end.
MicrophoneEnds(t) ==
    /\ threads[t].pc = "streaming"
    /\ threads' = [threads EXCEPT ![t].pc = "done", ![t].listening = FALSE]
    /\ last' = ThreadStep(t, "return")
    /\ UNCHANGED <<holders, ss, ui, hist, scores_in, top_out>>

ChatLoop ==
    \E t \in 1..Len(threads) :
        \/ ChatLoopBind(t)
        \/ ConnectOpens(t)
        \/ ConnectFails(t)
        \/ MicrophoneFails(t)
        \/ MicrophoneEnds(t)

Callbacks(max_callbacks) ==
    \E t \in 1..Len(threads) :
        \/ CallbackMessage(t, max_callbacks, AppEvents)
        \/ CallbackError(t, max_callbacks)
        \/ CallbackClose(t)

InitApp ==
    /\ holders = <<NewHolder>>
    /\ ss = InitSessionState
    /\ threads = <<>>
    /\ ui = InitUi
    /\ last = [op |-> "init"]
    /\ hist = <<>>
    /\ scores_in = <<>>
    /\ top_out = None

Rerun == ScheduledRun(FALSE)

Interact == UserRun(MaxStarts, FALSE)

\* SpecApp and SpecRedraw deliver one kind of event: a user message without
\* prosody.
PlainEvents ==
    { [type |-> "user_message", message |-> ChatMessage("user", "hello"),
       models |-> Inference(None)] }

PlainCallbacks(max_callbacks) ==
    \E t \in 1..Len(threads) :
        \/ CallbackMessage(t, max_callbacks, PlainEvents)
        \/ CallbackClose(t)

Vendor == PlainCallbacks(MaxAppCallbacks)

NextApp == Rerun \/ Interact \/ ChatLoop \/ Vendor

SpecApp == InitApp /\ [][NextApp]_vars

\* SpecSession: every kind of event and failure, fewer sessions.
Press == UserRun(MaxSessions, FALSE)

Events == Callbacks(MaxCallbacks)

NextSession == Rerun \/ Press \/ ChatLoop \/ Events

SpecSession == InitApp /\ [][NextSession]_vars

\* SpecRedraw: the same program, keeping what each redraw showed.
Redraw == ScheduledRun(TRUE)

Click == UserRun(MaxRedrawn, TRUE)

Arrivals == PlainCallbacks(MaxDrawn)

NextRedraw == Redraw \/ Click \/ ChatLoop \/ Arrivals

\* time.sleep(2); st.rerun() hands control back to the script runner, which
\* runs the script again: a scheduled rerun is not postponed for ever.
SpecRedraw == InitApp /\ [][NextRedraw]_vars /\ WF_vars(Redraw)

(***************************************************************************)
(* Claims about _extract_top_n_emotions (SpecTopN).                        *)
(***************************************************************************)
Range(s) == { s[i] : i \in 1..Len(s) }

PosIn(s, e) == CHOOSE i \in 1..Len(s) : s[i] = e

\* a goes before b in "score descending, ties in arrival order".
GoesBefore(s, a, b) == a[2] > b[2] \/ (a[2] = b[2] /\ PosIn(s, a) < PosIn(s, b))

\* C1: with n = 5 the retained distribution is the first 5 entries of the
\* mapping in score-descending order, ties in the mapping's arrival order:
\* min(5, len) entries are kept, each an entry of the mapping with its score
\* unchanged, they are listed in that order, and every kept entry goes before
\* (so scores at least as high as) every discarded one.
C1_TopFiveRetained ==
    ~top_out.none =>
        LET out == top_out.val
        IN /\ Len(out) = Min(5, Len(scores_in))
           /\ Range(out) \subseteq Range(scores_in)
           /\ \A i, j \in 1..Len(out) : i < j => GoesBefore(scores_in, out[i], out[j])
           /\ \A r \in Range(out) : \A d \in Range(scores_in) \ Range(out) :
                  /\ GoesBefore(scores_in, r, d)
                  /\ r[2] >= d[2]
           /\ (Len(scores_in) < 5 => Range(out) = Range(scores_in))

\* A mapping of more than 5 entries whose cut falls inside a tie has been reduced.
C1_Witness ==
    /\ ~top_out.none
    /\ Len(scores_in) > 5
    /\ \E r \in Range(top_out.val) : \E d \in Range(scores_in) \ Range(top_out.val) :
           r[2] = d[2]

(***************************************************************************)
(* Claims about the reducer (Spec).  hist is the vendor's own record of    *)
(* what it delivered; holders[1] is what the code made of it.              *)
(***************************************************************************)
IsCall(c, op) == c.op = op

IsMessageEvent(c) ==
    IsCall(c, "on_message") /\ c.arg.type \in {"user_message", "assistant_message"}

IsEventOfType(c, type) == IsCall(c, "on_message") /\ c.arg.type = type

\* The callback returned normally without its except clause running.
Succeeded(c) == c.propagated = NoExc /\ c.caught = NoExc

HandledMessageCall(c) == IsMessageEvent(c) /\ Succeeded(c)

HandledMessages == Filter(hist, HandledMessageCall)

IsPrefix(s, t) == Len(s) <= Len(t) /\ SubSeq(t, 1, Len(s)) = s

\* C2 (state part): messages is exactly the sequence of user_message and
\* assistant_message events handled so far, in arrival order, whatever the role.
C2_MessagesAreHandledEvents ==
    LET ms == holders[1].messages
        hm == HandledMessages
    IN /\ Len(ms) = Len(hm)
       /\ \A i \in 1..Len(ms) :
              /\ ms[i].role = hm[i].arg.message.val.role
              /\ ms[i].content = hm[i].arg.message.val.content
              /\ ms[i].emotions.none = hm[i].arg.models.val.prosody.none

\* C2 (step part): every callback leaves the messages appended before it as
\* an unchanged prefix.
C2_MessagesPrefixKept == IsPrefix(holders[1].messages, holders'[1].messages)

\* C2: messages is the arrival-ordered sequence of handled message events, and
\* no step mutates, reorders or removes a message appended earlier.
C2_MessagesAppendOnly ==
    [] C2_MessagesAreHandledEvents /\ [][C2_MessagesPrefixKept]_vars

\* Two messages of different roles, an event of another kind between them.
C2_Witness ==
    /\ Len(hist) = 3
    /\ IsEventOfType(hist[1], "assistant_message") /\ Succeeded(hist[1])
    /\ IsCall(hist[2], "on_close")
    /\ IsEventOfType(hist[3], "user_message") /\ Succeeded(hist[3])
    /\ Len(holders[1].messages) = 2

ErrorText(event) == <<"Hume API Error", event.code, event.message_text>>

\* C3: an error event, in any holder state, makes on_message return without
\* raising, leaves error_message equal to "Hume API Error (<code>): <message>"
\* built from that event, and appends exactly one log entry of category error
\* carrying that text.
C3_ErrorEventStep ==
    IsEventOfType(last', "error") =>
        /\ last'.propagated = NoExc
        /\ last'.caught = NoExc
        /\ holders'[1].error_message = Some(ErrorText(last'.arg))
        /\ holders'[1].logs =
               Append(holders[1].logs,
                      [message |-> ErrorText(last'.arg), type |-> "error"])

C3_ErrorEventRecorded == [][C3_ErrorEventStep]_vars

\* An error event arrived at a holder that already held another error string.
C3_Witness ==
    /\ Len(hist) >= 2
    /\ IsEventOfType(last, "error")
    /\ ~IsEventOfType(hist[Len(hist) - 1], "error")
    /\ ~Succeeded(hist[Len(hist) - 1])
    /\ Len(holders[1].logs) >= 2

IsMetadataCall(c) == IsEventOfType(c, "chat_metadata")

MetadataCalls == Filter(hist, IsMetadataCall)

MetadataPair(event) ==
    << <<"chat_id", event.chat_id>>, <<"chat_group_id", event.chat_group_id>> >>

\* C5 (state part): chat_metadata is the pair of the most recent metadata
\* event, empty if none has arrived.
C5_MetadataIsLatest ==
    LET mc == MetadataCalls
    IN holders[1].chat_metadata =
           IF mc = <<>> THEN <<>> ELSE MetadataPair(mc[Len(mc)].arg)

\* C5 (step part): a metadata event overwrites chat_metadata with its own pair
\* and appends exactly one metadata log entry; no other step changes it.
C5_MetadataStep ==
    IF IsMetadataCall(last')
    THEN /\ holders'[1].chat_metadata = MetadataPair(last'.arg)
         /\ Len(holders'[1].logs) = Len(holders[1].logs) + 1
         /\ holders'[1].logs[Len(holders'[1].logs)].type = "metadata"
         /\ IsPrefix(holders[1].logs, holders'[1].logs)
    ELSE holders'[1].chat_metadata = holders[1].chat_metadata

\* C5: chat_metadata is last-write-wins over the metadata events.
C5_MetadataLastWriteWins == [] C5_MetadataIsLatest /\ [][C5_MetadataStep]_vars

\* A second, different metadata event has overwritten the first, and an event
\* of another kind has followed.
C5_Witness ==
    /\ Len(hist) = 3
    /\ IsMetadataCall(hist[1]) /\ IsMetadataCall(hist[2])
    /\ hist[1].arg # hist[2].arg
    /\ ~IsMetadataCall(hist[3])
    /\ holders[1].chat_metadata = MetadataPair(hist[2].arg)

HasEmotions(m) == ~m.emotions.none

\* C6 (state part): emotion_scores is the emotions of the most recent message
\* whose emotions are not None, and empty when there is none.
C6_CurrentIsLatestEmotions ==
    LET em == Filter(holders[1].messages, HasEmotions)
    IN holders[1].emotion_scores =
           IF em = <<>> THEN <<>> ELSE em[Len(em)].emotions.val

\* C6 (step part): a handled message event with prosody stores its top-5
\* reduction on the appended message and as the current distribution; one
\* without prosody appends a message without emotions and leaves the current
\* distribution alone.
C6_MessageStep ==
    HandledMessageCall(last') =>
        LET prosody == last'.arg.models.val.prosody
            ms == holders'[1].messages
        IN /\ Len(ms) = Len(holders[1].messages) + 1
           /\ IF prosody.none
              THEN /\ ms[Len(ms)].emotions = None
                   /\ holders'[1].emotion_scores = holders[1].emotion_scores
              ELSE /\ ms[Len(ms)].emotions = Some(ExtractTopN(prosody.val, 5))
                   /\ holders'[1].emotion_scores = ExtractTopN(prosody.val, 5)

LogCategories == {"system", "metadata", "error"}

\* The category of the one entry a successfully handled call appends, None
\* when it appends no entry.
ExpectedCategory(c) ==
    IF IsCall(c, "on_open") \/ IsCall(c, "on_close") THEN Some("system")
    ELSE IF IsCall(c, "on_error") THEN Some("error")
    ELSE IF c.arg.type = "chat_metadata" THEN Some("metadata")
    ELSE IF c.arg.type = "error" THEN Some("error")
    ELSE IF c.arg.type \in {"user_message", "assistant_message", "audio_output"}
         THEN None
    ELSE Some("system")

C7_LogStep ==
    LET old == holders[1].logs
        new == holders'[1].logs
    IN /\ IsPrefix(old, new)
       /\ Succeeded(last') =>
              LET want == ExpectedCategory(last')
              IN IF want.none THEN new = old
                 ELSE /\ Len(new) = Len(old) + 1
                      /\ new[Len(new)].type = want.val

C7_LogCategoriesOnly ==
    \A i \in 1..Len(holders[1].logs) : holders[1].logs[i].type \in LogCategories

\* C7: the log is append-only, its categories are system, metadata and error,
\* and each successfully handled call appends the one entry of its kind.
C7_LogAppendOnly == [] C7_LogCategoriesOnly /\ [][C7_LogStep]_vars

\* One entry of each category, and a message event that appended none.
C7_Witness ==
    /\ Len(hist) = MaxEvents
    /\ \E i \in 1..Len(hist) : HandledMessageCall(hist[i])
    /\ Len(holders[1].logs) = Len(hist) - 1
    /\ \E i, j \in 1..Len(holders[1].logs) :
           /\ holders[1].logs[i].type = "metadata"
           /\ holders[1].logs[j].type = "error"

(***************************************************************************)
(* Claims about the session driver and the redraw (SpecApp, SpecRedraw).   *)
(***************************************************************************)
CallbackOps == {"on_open", "on_message", "on_close", "on_error"}

IsCallback(c) == c.op \in CallbackOps

\* Something raised inside the callback or the coroutine the step ran.
Raised(c) ==
    \/ IsCallback(c) /\ ~Succeeded(c)
    \/ c.op = "except"

\* C4 as stated: whenever a step inside a callback or _chat_loop raises,
\* nothing propagates to the caller, the failure is the last-error string of
\* the holder, and the session goes on accepting events.
C4_AllFailuresCaught ==
    Raised(last) =>
        /\ IsCallback(last) => last.propagated = NoExc
        /\ ~holders[last.h].error_message.none
        /\ Receiving(last.t)

HandlerErrorText(exc) == <<"Handler error", exc>>

C4_Step ==
    LET c == last'
    IN /\ c.op \in {"on_open", "on_close"} => Succeeded(c)
       /\ c.op = "on_message" =>
              /\ c.propagated = NoExc
              /\ c.caught # NoExc =>
                     /\ holders'[c.h].error_message = Some(HandlerErrorText(c.caught))
                     /\ holders'[c.h].logs =
                            Append(holders[c.h].logs,
                                   [message |-> HandlerErrorText(c.caught),
                                    type |-> "error"])
                     /\ holders'[c.h].messages = holders[c.h].messages
                     /\ holders'[c.h].emotion_scores = holders[c.h].emotion_scores
                     /\ threads'[c.t].pc = "streaming"
                     /\ threads'[c.t].listening
       /\ c.op = "on_error" =>
              /\ c.caught = NoExc
              /\ c.propagated # NoExc => holders' = holders
       /\ c.op = "except" =>
              /\ c.h = ss.handler
              /\ holders'[c.h].error_message = Some(ChatLoopErrorText(c.exc))
              /\ ~ss'.is_connected
              /\ threads'[c.t].pc = "done"
              /\ ~threads'[c.t].listening

\* C4 (amended): on_message and _chat_loop catch what is raised inside them.
\* on_message stores "Handler error: <exception>" as error_message and as one
\* error log entry, lets nothing out, leaves messages and emotion_scores as
\* they were, and its session goes on receiving.  _chat_loop stores
\* "Chat loop error: <exception>" on the holder st.session_state names at that
\* moment, clears the UI's connected flag, and its thread ends: that session
\* receives nothing more.  on_open and on_close raise nothing; on_error
\* catches nothing, and what is raised inside it leaves it with the holder
\* unchanged.
C4_FailuresCaughtWhereHandled == [][C4_Step]_vars

\* on_message caught an exception raised by a message event on a holder that
\* has a message, and the session is still receiving.
C4_Witness ==
    /\ last.op = "on_message"
    /\ last.caught # NoExc
    /\ Receiving(last.t)
    /\ holders[last.h].messages # <<>>

IsRun(c) == c.op = "run"

Live(t) == threads[t].pc # "done"

\* C8 (step part): stop_chat clears chat_started and the UI's connected flag
\* and touches neither the holders nor the threads; start_chat starts one new
\* thread (none when Thread.start fails) and touches no other; no other step
\* starts a thread; a thread calls connect once.
C8_Step ==
    /\ (IsRun(last') /\ last'.stop) =>
           /\ ss' = [ss EXCEPT !.chat_started = FALSE, !.is_connected = FALSE]
           /\ holders' = holders
           /\ threads' = threads
    /\ (IsRun(last') /\ last'.start) =>
           /\ threads' = IF ss'.chat_started THEN Append(threads, NewThread)
                         ELSE threads
           /\ SubSeq(holders', 1, Len(holders)) = holders
    /\ ~(IsRun(last') /\ last'.start) => Len(threads') = Len(threads)
    /\ \A t \in 1..Len(threads') :
           threads'[t].connects =
               IF threads'[t].pc \in {"start", "connecting"} THEN 0 ELSE 1

\* C8: one thread and one connection per start; stop is a flag flip.
C8_StopIsFlagFlip == [][C8_Step]_vars

\* chat_started is false, two session threads are live, and one of them has
\* just delivered an event into its holder.
C8_Witness ==
    /\ ~ss.chat_started
    /\ last.op = "on_message"
    /\ Len(threads) = 2
    /\ Live(1) /\ Live(2)
    /\ Receiving(1) /\ Receiving(2)

Stale == ui.seen # Some(Rendered(holders[ss.handler]))

\* C9 (step part): a run schedules another exactly when it ends with
\* chat_started set, shows the holder as it is, and writes to no holder.
C9_RunStep ==
    IsRun(last') =>
        /\ ui'.rerun = ss'.chat_started
        /\ SubSeq(holders', 1, Len(holders)) = holders
        /\ ~Stale'

\* C9 (progress part): while chat_started stays set, what the holder has
\* become is drawn in the end.
C9_Progress == (ss.chat_started /\ Stale) ~> (~ss.chat_started \/ ~Stale)

C10_UiConnectedOnlyWhenOpen ==
    ss.is_connected => ss.chat_started /\ holders[ss.handler].is_connected

====
